---- MODULE Spec2Model ----
(***************************************************************************)
(* Model of finstats: the frequency resolver (src/src/utils.py), the       *)
(* statistics engine fin_stats (src/src/core.py) and the single-balance    *)
(* front end sbs (src/__init__.py).                                        *)
(*                                                                         *)
(* A pandas Series is a record [none, vals, freq, name, index, first]:     *)
(* `none` tells a missing (None) series, `vals` are its values in index    *)
(* order, `freq` is the frequency string of its index, `name` its name,    *)
(* `index` the type of its index and `first` the number of observations    *)
(* a slice has dropped before vals[1].  The timestamps of a series are     *)
(* day numbers computed from `freq` and the position (DateOf).             *)
(* A float is a record [nan, n, d]: NaN, or the rational n/d with d > 0.   *)
(***************************************************************************)
EXTENDS Integers, Sequences, FiniteSets, TLC

VARIABLES
    balance,      \* the balance series handed to the engine
    bm_balance,   \* the benchmark series handed to the engine (or None)
    stats,        \* the fin_stats instance: the attributes set on it
    ret,          \* the outcome of the last call: what it returned or raised
    consumed,     \* losing_streak loop: the returns iterated so far
    current_streak,     \* losing_streak loop: local current_streak
    max_losing_streak,  \* losing_streak loop: local max_losing_streak
    sbs_self      \* the sbs instance: the attributes set on it

vars == <<balance, bm_balance, stats, ret,
          consumed, current_streak, max_losing_streak, sbs_self>>

loopVars == <<consumed, current_streak, max_losing_streak>>

----------------------------------------------------------------------------
(* Bounds of the model *)

MaxLen == 3        \* longest balance series of the drawdown inputs
MaxVal == 3        \* largest balance value of the drawdown inputs
MaxFreqLen == 1    \* longest balance series of the frequency inputs
MaxFreqVal == 2    \* largest balance value of the frequency inputs
MaxRets == 5       \* longest return series fed to the losing_streak loop

----------------------------------------------------------------------------
(* Floats *)

NaN == [nan |-> TRUE, n |-> 0, d |-> 1]

R(num, den) == [nan |-> FALSE, n |-> num, d |-> den]

Zero == R(0, 1)

\* x < y, x <= y, x >= y, x = y on floats: every comparison with NaN is false
FLt(x, y) == ~x.nan /\ ~y.nan /\ x.n * y.d < y.n * x.d
FLe(x, y) == ~x.nan /\ ~y.nan /\ x.n * y.d <= y.n * x.d
FGe(x, y) == FLe(y, x)
FEq(x, y) == ~x.nan /\ ~y.nan /\ x.n * y.d = y.n * x.d

----------------------------------------------------------------------------
(* Lookup tables *)

bal_freq_standarizer ==
    [B |-> [D |-> 1, M |-> 21, 2M |-> 42, 3M |-> 63, 4M |-> 84, Y |-> 252],
     D |-> [D |-> 1, M |-> 30, 2M |-> 60, 3M |-> 90, 4M |-> 120, Y |-> 360],
     M |-> [M |-> 1, 2M |-> 2, 3M |-> 3, 4M |-> 4, Y |-> 12],
     W |-> [M |-> 4, 2M |-> 8, 3M |-> 12, 4M |-> 16, Y |-> 52]]

rf_standarizer ==
    [M |-> 12, D |-> 360, 3M |-> 4, 6M |-> 2, 4M |-> 3, 2M |-> 6, Y |-> 1, W |-> 52]

SamplingFreqs == DOMAIN bal_freq_standarizer

\* the reporting frequencies tried: keys of both tables ("D" is no key of
\* the M and W rows), one that only rf_standarizer knows ("6M") and one
\* that neither table knows ("Q")
StatsFreqs == {"D", "M", "2M", "6M", "Y", "Q"}

\* an index whose freq is unset and cannot be inferred
NoFreq == "NoFreq"

----------------------------------------------------------------------------
(* Series *)

\* the name of an unnamed series (None)
NoName == "None"

NoneSeries ==
    [none |-> TRUE, vals |-> <<>>, freq |-> NoFreq, name |-> NoName,
     index |-> "datetime", first |-> 0]

\* an unnamed series on a DatetimeIndex
Series(v, f) ==
    [none |-> FALSE, vals |-> v, freq |-> f, name |-> NoName,
     index |-> "datetime", first |-> 0]

\* sequences over S of length 1..n
SeqsUpTo(n, S) == UNION {[1..k -> S] : k \in 1..n}

\* Scenario A of the specification, and a series with two separate losses
ScenarioA == <<100, 90, 80, 95, 110>>
ScenarioC == <<100, 102, 101, 98, 99, 97>>

\* Scenario B of the specification, a balance that doubles every period,
\* and balances that reach 0 or go below it (their first value, the only
\* one pct_change divides by at step 1, is positive)
ScenarioB == <<100, 110, 120>>
Doubling == <<1, 2, 4, 8>>
NonPositiveInputs == {<<2, 0>>, <<1, -1>>}
\* a balance that stays two periods at its trough before it is back
TwoTroughs == <<2, 1, 1, 2>>

\* balances tried with a benchmark of the same frequency
BalanceInputs ==
    SeqsUpTo(MaxLen, 1..MaxVal) \cup {ScenarioA, ScenarioC, Doubling, TwoTroughs} \cup NonPositiveInputs

\* balances tried with every combination of frequencies
FreqBalanceInputs ==
    SeqsUpTo(MaxFreqLen, 1..MaxFreqVal) \cup {ScenarioB, <<1, 2, 4>>}

\* the benchmark values tried with a balance b: the balance itself and the
\* balance read backwards
Reverse(s) == [i \in 1..Len(s) |-> s[Len(s) + 1 - i]]
BenchmarkInputs(b) == {b, Reverse(b)}

\* day number of the i-th timestamp (i >= 1) of an index of frequency f:
\* calendar days, business days (Monday to Friday), weeks, month ends of a
\* non-leap year, and an irregular index
MonthEnd == <<0, 28, 59, 89, 120, 150, 181, 212, 242, 273, 303, 334>>
DateOf(f, i) ==
    CASE f = "D" -> i - 1
      [] f = "B" -> 7 * ((i - 1) \div 5) + ((i - 1) % 5)
      [] f = "W" -> 7 * (i - 1)
      [] f = "M" -> MonthEnd[((i - 1) % 12) + 1] + 365 * ((i - 1) \div 12)
      [] OTHER -> (i * (i - 1)) \div 2

----------------------------------------------------------------------------
(* Frequency resolver: src/src/utils.py *)

\* the result of a call: the exception it raises ("none" if it returns)
\* and the value it returns
Ret(v) == [exc |-> "none", val |-> v]
Raise(e) == [exc |-> e, val |-> 0]

\* get_data_frequency: the index frequency, or ValueError when it is unset
\* and cannot be inferred; a None series has no index
get_data_frequency(df) ==
    IF df.none THEN Raise("AttributeError")
    ELSE IF df.freq = NoFreq THEN Raise("ValueError")
    ELSE Ret(df.freq)

\* check_bal_freq: the frequencies of balance and benchmark, in this order;
\* returns the last one read when they agree
check_bal_freq(bal, bm) ==
    LET f1 == get_data_frequency(bal)
        f2 == get_data_frequency(bm)
    IN  IF f1.exc # "none" THEN f1
        ELSE IF f2.exc # "none" THEN f2
        ELSE IF f1.val # f2.val THEN Raise("ValueError")
        ELSE Ret(f2.val)

\* get_stats_freq: the step count; 0 stands for the None it returns after
\* logging a failed lookup
get_stats_freq(bal, bm, freq) ==
    LET balance_freq == check_bal_freq(bal, bm)
    IN  IF balance_freq.exc # "none" THEN balance_freq
        ELSE IF freq \in DOMAIN bal_freq_standarizer[balance_freq.val]
             THEN Ret(bal_freq_standarizer[balance_freq.val][freq])
             ELSE Ret(0)

\* None as a float-valued result
None == [nan |-> TRUE, n |-> 0, d |-> 0]
IsNone(x) == x.d = 0

\* the default annual risk-free rate of sbs.get_stats, 0.022 = 22/1000
AnnualRfNum == 22
AnnualRfDen == 1000

\* get_rf: the annual rate over the annualization factor, None after a
\* logged failed lookup
get_rf(rf, stats_freq) ==
    IF stats_freq \in DOMAIN rf_standarizer
    THEN R(rf.n, rf.d * rf_standarizer[stats_freq])
    ELSE None

----------------------------------------------------------------------------
(* Statistics engine: src/src/core.py *)

\* Series.pct_change(k, fill_method=None): undefined on the first k
\* positions, then vals[i] / vals[i-k] - 1
pct_change(v, k) ==
    [i \in 1..Len(v) |-> IF i <= k THEN NaN ELSE R(v[i] - v[i - k], v[i - k])]

\* np.log(1 + returns): a log return is kept as the argument of the
\* logarithm, so R(n, d) in a log-return series stands for ln(n / d):
\* -inf when n = 0 (a return of -1); the logarithm of a negative number is
\* NaN; numpy warns and raises nothing in either case
log1p(rets) ==
    [i \in 1..Len(rets) |->
        IF rets[i].nan \/ rets[i].n + rets[i].d < 0 THEN NaN
        ELSE R(rets[i].n + rets[i].d, rets[i].d)]

\* an instance on which no attribute has been set
NoAttrs ==
    [attrs |-> {}, rf |-> None, balance |-> NoneSeries, returns |-> <<>>,
     log_returns |-> <<>>, bm_balance |-> NoneSeries, bm_returns |-> <<>>,
     bm_log_returns |-> <<>>]

\* fin_stats.__init__ when the frequency check comes after the returns
init_checks_late(bal, stats_freq, rf, bm) ==
    LET k == get_stats_freq(bal, bm, stats_freq)
        r == pct_change(bal.vals, IF k.exc = "none" THEN k.val ELSE 1)
    IN  [inst |-> [NoAttrs EXCEPT !.attrs = {"rf", "balance", "returns", "log_returns"},
                                  !.rf = rf, !.balance = bal, !.returns = r,
                                  !.log_returns = log1p(r)],
         raised |-> "none",
         logged |-> k.exc]

\* fin_stats.__init__: the instance it leaves, the exception it lets out and
\* the exception it logs.  The body is one try block: get_stats_freq runs
\* first; pct_change(None) raises TypeError after rf and balance are set.
fin_stats_init(bal, stats_freq, rf, bm) ==
    LET k == get_stats_freq(bal, bm, stats_freq)
        r == pct_change(bal.vals, k.val)
        own == [NoAttrs EXCEPT !.attrs = {"rf", "balance", "returns", "log_returns"},
                               !.rf = rf, !.balance = bal, !.returns = r,
                               !.log_returns = log1p(r)]
        bmr == pct_change(bm.vals, k.val)
    IN  IF k.exc # "none"
        THEN [inst |-> NoAttrs, raised |-> "none", logged |-> k.exc]
        ELSE IF k.val = 0
        THEN [inst |-> [NoAttrs EXCEPT !.attrs = {"rf", "balance"},
                                       !.rf = rf, !.balance = bal],
              raised |-> "none", logged |-> "TypeError"]
        ELSE IF bm.none
        THEN [inst |-> own, raised |-> "none", logged |-> "none"]
        ELSE [inst |-> [own EXCEPT !.attrs = @ \cup {"bm_balance", "bm_returns", "bm_log_returns"},
                                   !.bm_balance = bm, !.bm_returns = bmr,
                                   !.bm_log_returns = log1p(bmr)],
              raised |-> "none", logged |-> "none"]

\* Series.cummax
RECURSIVE cummax(_)
cummax(v) ==
    IF Len(v) <= 1 THEN v
    ELSE LET head == cummax(SubSeq(v, 1, Len(v) - 1))
             last == head[Len(head)]
         IN  Append(head, IF v[Len(v)] > last THEN v[Len(v)] ELSE last)

\* Series.cummin
RECURSIVE cummin(_)
cummin(v) ==
    IF Len(v) <= 1 THEN v
    ELSE LET head == cummin(SubSeq(v, 1, Len(v) - 1))
             last == head[Len(head)]
         IN  Append(head, IF v[Len(v)] < last THEN v[Len(v)] ELSE last)

\* the drawdown curve measured from the running minimum instead of the peak
drawdown_from_cummin(v) ==
    LET cumulative_min == cummin(v)
    IN  [t \in 1..Len(v) |-> R(v[t] - cumulative_min[t], cumulative_min[t])]

\* fin_stats.drawdown: (balance - cumulative_max) / cumulative_max
drawdown(v) ==
    LET cumulative_max == cummax(v)
    IN  [t \in 1..Len(v) |-> R(v[t] - cumulative_max[t], cumulative_max[t])]

\* Series.idxmin / Series.idxmax on floats: the first position of the
\* smallest / largest value (0 for an empty series)
idxmin(s) ==
    IF Len(s) = 0 THEN 0
    ELSE CHOOSE i \in 1..Len(s) :
            /\ \A j \in 1..Len(s) : FLe(s[i], s[j])
            /\ \A j \in 1..(i - 1) : ~FLe(s[j], s[i])

\* Series.min on floats, NaN for an empty series
series_min(s) == IF Len(s) = 0 THEN NaN ELSE s[idxmin(s)]

\* the largest value of the drawdown curve
max_dd_takes_max(v) ==
    LET dd == drawdown(v)
    IN  dd[CHOOSE i \in 1..Len(dd) : \A j \in 1..Len(dd) : FGe(dd[i], dd[j])]

\* fin_stats.max_dd: drawdown().min()
max_dd(v) == series_min(drawdown(v))

\* what recovery() returns: a number of days, the string "Not Recovered",
\* or None
Days(k) == [kind |-> "int", val |-> k]
NotRecovered == [kind |-> "Not Recovered", val |-> 0]
NoRecovery == [kind |-> "None", val |-> 0]

\* the last position of the smallest drawdown
trough_pos_last(v) ==
    LET dd == drawdown(v)
    IN  CHOOSE i \in 1..Len(dd) :
            /\ \A j \in 1..Len(dd) : FLe(dd[i], dd[j])
            /\ \A j \in (i + 1)..Len(dd) : ~FLe(dd[j], dd[i])

\* position of the trough: drawdowns.idxmin()
trough_pos(v) == idxmin(drawdown(v))

\* position of the peak the trough fell from: cumulative_max[:trough].idxmax()
peak_pos(v) ==
    LET cm == cummax(v)
        e == trough_pos(v)
    IN  CHOOSE i \in 1..e : cm[i] = cm[e] /\ \A j \in 1..(i - 1) : cm[j] < cm[e]

\* a recovery scan that starts at the peak instead of the trough
recovery_pos_from_peak(v) ==
    LET hit == {p \in peak_pos(v)..Len(v) : v[p] >= v[peak_pos(v)]}
    IN  CHOOSE p \in hit : \A q \in hit : p <= q

\* position of the recovery: (balance[trough:] >= balance[peak]).idxmax(),
\* the first True, or the first position of the slice when none is True
recovery_pos(v) ==
    LET e == trough_pos(v)
        hit == {p \in e..Len(v) : v[p] >= v[peak_pos(v)]}
    IN  IF hit = {} THEN e ELSE CHOOSE p \in hit : \A q \in hit : p <= q

\* recovery without the check that the balance came back
recovery_unchecked(bal) ==
    LET v == bal.vals
    IN  IF bal.none \/ Len(v) = 0 THEN NoRecovery
        ELSE Days(DateOf(bal.freq, bal.first + recovery_pos(v))
                  - DateOf(bal.freq, bal.first + trough_pos(v)))

\* fin_stats.recovery on the balance series bal
recovery(bal) ==
    LET v == bal.vals
    IN  IF bal.none \/ Len(v) = 0 THEN NoRecovery
        ELSE IF v[recovery_pos(v)] < v[peak_pos(v)] THEN NotRecovered
        ELSE Days(DateOf(bal.freq, bal.first + recovery_pos(v))
                  - DateOf(bal.freq, bal.first + trough_pos(v)))

\* what the legacy recovery returns: a number of steps or None
Steps(k) == [kind |-> "int", val |-> k]

\* calc_recovery, first loop, after the first t balances: peak,
\* max_drawdown = (peak - x) / peak at its largest, and the peak it fell from
RECURSIVE max_drawdown_scan(_, _)
max_drawdown_scan(v, t) ==
    IF t = 0 THEN [peak |-> v[1], max_drawdown |-> Zero, max_drawdown_peak |-> 0]
    ELSE LET st == max_drawdown_scan(v, t - 1)
             peak == IF v[t] > st.peak THEN v[t] ELSE st.peak
             current_drawdown == R(peak - v[t], peak)
         IN  IF FLt(st.max_drawdown, current_drawdown)
             THEN [peak |-> peak, max_drawdown |-> current_drawdown,
                   max_drawdown_peak |-> peak]
             ELSE [st EXCEPT !.peak = peak]

\* calc_recovery, second loop, after the first t balances; done after break
RECURSIVE recovery_scan(_, _, _)
recovery_scan(v, max_drawdown_peak, t) ==
    IF t = 0
    THEN [drawdown_started |-> FALSE, steps_after_trough |-> 0,
          recovery_period |-> NoRecovery, done |-> FALSE]
    ELSE LET st == recovery_scan(v, max_drawdown_peak, t - 1)
         IN  IF st.done THEN st
             ELSE IF v[t] = max_drawdown_peak /\ ~st.drawdown_started
             THEN [st EXCEPT !.drawdown_started = TRUE]
             ELSE IF st.drawdown_started /\ v[t] >= max_drawdown_peak
             THEN [st EXCEPT !.recovery_period = Steps(st.steps_after_trough),
                             !.done = TRUE]
             ELSE IF st.drawdown_started
             THEN [st EXCEPT !.steps_after_trough = @ + 1]
             ELSE st

\* stats_funcs.calc_recovery(balance); funcs.fin_stats.recovery has the
\* same body on self.balance
calc_recovery(v) ==
    LET m == max_drawdown_scan(v, Len(v))
    IN  IF FLt(Zero, m.max_drawdown)
        THEN recovery_scan(v, m.max_drawdown_peak, Len(v)).recovery_period
        ELSE NoRecovery

\* the two locals of the losing_streak loop before the first iteration
StreakStart == [current_streak |-> 0, max_losing_streak |-> 0]

Max(a, b) == IF a >= b THEN a ELSE b

\* a loop body that never resets the current streak
streak_never_resets(st, x) ==
    IF FLt(x, Zero)
    THEN [current_streak |-> st.current_streak + 1,
          max_losing_streak |-> Max(st.max_losing_streak, st.current_streak + 1)]
    ELSE st

\* a loop body that also counts a return of exactly 0 as a loss
streak_counts_zero(st, x) ==
    IF FLe(x, Zero)
    THEN [current_streak |-> st.current_streak + 1,
          max_losing_streak |-> Max(st.max_losing_streak, st.current_streak + 1)]
    ELSE [st EXCEPT !.current_streak = 0]

\* one iteration of the losing_streak loop on the return x
streak_step(st, x) ==
    IF FLt(x, Zero)
    THEN [current_streak |-> st.current_streak + 1,
          max_losing_streak |-> Max(st.max_losing_streak, st.current_streak + 1)]
    ELSE [st EXCEPT !.current_streak = 0]

\* fin_stats.losing_streak: the loop over all of self.returns
RECURSIVE streak_loop(_)
streak_loop(rets) ==
    IF Len(rets) = 0 THEN StreakStart
    ELSE streak_step(streak_loop(SubSeq(rets, 1, Len(rets) - 1)), rets[Len(rets)])

losing_streak(rets) == streak_loop(rets).max_losing_streak

\* the tests of the boolean masks: returns >= 0, returns > 0, not NaN
IsNonNegative(x) == FGe(x, Zero)
IsPositive(x) == FLt(Zero, x)
IsDefined(x) == ~x.nan

\* Series.count(): the number of values that are not NaN
count(s) == Len(SelectSeq(s, IsDefined))

\* the fraction of returns that are strictly positive
positive_pct_strict(rets) ==
    IF count(rets) = 0 THEN NaN
    ELSE R(count(SelectSeq(rets, IsPositive)), count(rets))

\* fin_stats.positive_returns_pct:
\* returns[returns >= 0].count() / returns.count(); the quotient of two
\* numpy integers 0 / 0 is NaN
positive_returns_pct(rets) ==
    IF count(rets) = 0 THEN NaN
    ELSE R(count(SelectSeq(rets, IsNonNegative)), count(rets))

----------------------------------------------------------------------------
(* Exact arithmetic for np.exp(log_returns.mean()) - 1 *)

\* a natural number as its base-1000 digits, least significant first, no
\* leading zero digit: products such as 360000^5 exceed the machine integers
Base == 1000

RECURSIVE BigOf(_)
BigOf(k) == IF k = 0 THEN <<>> ELSE <<k % Base>> \o BigOf(k \div Base)

RECURSIVE BigMulCarry(_, _, _)
BigMulCarry(b, m, carry) ==
    IF b = <<>> THEN BigOf(carry)
    ELSE LET t == Head(b) * m + carry
         IN  <<t % Base>> \o BigMulCarry(Tail(b), m, t \div Base)

\* b * m for a natural number m below 2,000,000
BigMul(b, m) == IF m = 0 THEN <<>> ELSE BigMulCarry(b, m, 0)

\* b * m^e
RECURSIVE BigMulPow(_, _, _)
BigMulPow(b, m, e) == IF e = 0 THEN b ELSE BigMulPow(BigMul(b, m), m, e - 1)

\* the product of a sequence of natural numbers
RECURSIVE BigProd(_)
BigProd(ks) == IF ks = <<>> THEN BigOf(1) ELSE BigMul(BigProd(Tail(ks)), Head(ks))

\* -1, 0, 1 as a < b, a = b, a > b
RECURSIVE BigCmp(_, _)
BigCmp(a, b) ==
    IF Len(a) # Len(b) THEN (IF Len(a) < Len(b) THEN -1 ELSE 1)
    ELSE IF a = <<>> THEN 0
    ELSE LET i == Len(a)
         IN  IF a[i] # b[i] THEN (IF a[i] < b[i] THEN -1 ELSE 1)
             ELSE BigCmp(SubSeq(a, 1, i - 1), SubSeq(b, 1, i - 1))

\* a geometric mean: (pn / pd)^(1/c) - 1, the value of
\* exp(mean of ln(n_i / d_i)) - 1 over c defined log returns; it is -1 when
\* a log return is -inf (pn = 0)
NaNMean == [nan |-> TRUE, pn |-> <<>>, pd |-> <<>>, c |-> 0]

\* the mean over all positions, defined or not
mean_over_all(log_returns) ==
    LET defined == SelectSeq(log_returns, IsDefined)
    IN  IF defined = <<>> THEN NaNMean
        ELSE [nan |-> FALSE,
              pn |-> BigProd([i \in 1..Len(defined) |-> defined[i].n]),
              pd |-> BigProd([i \in 1..Len(defined) |-> defined[i].d]),
              c |-> Len(log_returns)]

\* fin_stats.mean_returns(geometric=True) on the log returns: Series.mean
\* skips NaN and is NaN when nothing is left
mean_returns(log_returns) ==
    LET defined == SelectSeq(log_returns, IsDefined)
    IN  IF defined = <<>> THEN NaNMean
        ELSE [nan |-> FALSE,
              pn |-> BigProd([i \in 1..Len(defined) |-> defined[i].n]),
              pd |-> BigProd([i \in 1..Len(defined) |-> defined[i].d]),
              c |-> Len(defined)]

\* the sign of mean - x for a float x > -1:
\* (pn / pd)^(1/c) against (x.n + x.d) / x.d
MeanCmp(mean, x) ==
    BigCmp(BigMulPow(mean.pn, x.d, mean.c), BigMulPow(mean.pd, x.n + x.d, mean.c))

\* fin_stats.min_return: Series.min skips NaN
min_return(rets) == series_min(SelectSeq(rets, IsDefined))

\* a ratio of an excess return to a risk: kind is "none" (None), "nan",
\* "inf" or "number"; a number is sign * |mean - rf| / |downside|
NoRatio ==
    [kind |-> "none", sign |-> 0, mean |-> NaNMean, rf |-> None, downside |-> None]

NaNRatio == [NoRatio EXCEPT !.kind = "nan"]

\* the Calmar ratio without a guard on the worst return
calmar_unguarded(inst) ==
    LET downside == min_return(inst.returns)
        mean == mean_returns(inst.log_returns)
    IN  IF IsNone(inst.rf) THEN NoRatio
        ELSE IF mean.nan \/ downside.nan THEN NaNRatio
        ELSE [kind |-> IF downside.n = 0 THEN "inf" ELSE "number",
              sign |-> IF MeanCmp(mean, inst.rf) = 0 THEN 0 ELSE 1,
              mean |-> mean, rf |-> inst.rf, downside |-> downside]

\* fin_stats.calmar_ratio(geometric=True): NaN unless the worst return is
\* negative, then abs((mean - rf) / downside); mean - None raises TypeError,
\* logged, and None is returned
calmar_ratio(inst) ==
    LET downside == min_return(inst.returns)
        mean == mean_returns(inst.log_returns)
    IN  IF ~FLt(downside, Zero) THEN NaNRatio
        ELSE IF IsNone(inst.rf) THEN NoRatio
        ELSE IF mean.nan THEN NaNRatio
        ELSE [kind |-> "number",
              sign |-> IF MeanCmp(mean, inst.rf) = 0 THEN 0 ELSE 1,
              mean |-> mean, rf |-> inst.rf, downside |-> downside]

\* the rows lr() keeps: positions where both series are defined
paired(x, y) ==
    {i \in (1..Len(x)) \cap (1..Len(y)) : ~x[i].nan /\ ~y[i].nan}

\* log_returns - bm_log_returns, position by position on the shared index.
\* The positions where the difference is defined: both log returns are,
\* and they are not both -inf
outperf_rows(x, y) == {i \in paired(x, y) : x[i].n # 0 \/ y[i].n # 0}

\* the sign of outperf_bm.mean(): the product of the ratios against 1
outperf_mean_sign(x, y) ==
    LET rows == outperf_rows(x, y)
        ix == [i \in 1..Len(x) |-> i]
        keep(i) == i \in rows
        sel == SelectSeq(ix, keep)
    IN  BigCmp(BigProd([j \in 1..Len(sel) |-> x[sel[j]].n * y[sel[j]].d]),
               BigProd([j \in 1..Len(sel) |-> x[sel[j]].d * y[sel[j]].n]))

\* outperf_bm.std() as "nan" (fewer than two differences, or an infinite
\* one), "zero" (all differences equal) or "positive"
outperf_std(x, y) ==
    LET rows == outperf_rows(x, y)
    IN  IF Cardinality(rows) < 2 \/ \E i \in rows : x[i].n = 0 \/ y[i].n = 0
        THEN "nan"
        ELSE IF \A i, j \in rows :
                    x[i].n * y[i].d * x[j].d * y[j].n = x[j].n * y[j].d * x[i].d * y[i].n
        THEN "zero"
        ELSE "positive"

\* the information ratio without the guard on the standard deviation
info_ratio_unguarded(inst) ==
    LET x == inst.log_returns
        y == inst.bm_log_returns
    IN  IF outperf_std(x, y) = "nan" THEN NaNRatio
        ELSE IF outperf_std(x, y) = "positive"
        THEN [NoRatio EXCEPT !.kind = "number", !.sign = outperf_mean_sign(x, y)]
        ELSE IF outperf_mean_sign(x, y) = 0 THEN NaNRatio
        ELSE [NoRatio EXCEPT !.kind = "inf", !.sign = outperf_mean_sign(x, y)]

\* fin_stats.info_ratio(log_returns=True): outperf_mean / outperf_std if
\* outperf_std > 0, NaN otherwise (NaN > 0 is false)
info_ratio(inst) ==
    LET x == inst.log_returns
        y == inst.bm_log_returns
    IN  IF outperf_std(x, y) = "positive"
        THEN [NoRatio EXCEPT !.kind = "number", !.sign = outperf_mean_sign(x, y)]
        ELSE NaNRatio

\* beta_alpha() returns None: an attribute is missing, or linregress
\* raises ValueError (no rows, or more than one row and all x identical)
beta_alpha_is_none(inst) ==
    \/ ~({"log_returns", "bm_log_returns"} \subseteq inst.attrs)
    \/ LET x == inst.bm_log_returns
           rows == paired(x, inst.log_returns)
       IN  \/ rows = {}
           \/ Cardinality(rows) > 1 /\ \A i, j \in rows : FEq(x[i], x[j])

\* the result of a regression: kind is "none" (None), "nan", "exact" (beta
\* and alpha are the floats given) or "fit" (the least-squares values of
\* two series that differ, not reduced further); jensen likewise
NoReg == [kind |-> "none", beta |-> None, alpha |-> None, jensen |-> None]

\* a beta_alpha that returns the exponential of the intercept as alpha
beta_alpha_keeps_exp(inst) ==
    LET x == inst.bm_log_returns
        y == inst.log_returns
        rows == paired(x, y)
    IN  IF beta_alpha_is_none(inst) THEN NoReg
        ELSE IF Cardinality(rows) = 1 \/ \E i \in rows : x[i].n = 0 \/ y[i].n = 0
        THEN [NoReg EXCEPT !.kind = "nan"]
        ELSE IF \A i \in rows : FEq(x[i], y[i])
        THEN [NoReg EXCEPT !.kind = "exact", !.beta = R(1, 1), !.alpha = R(1, 1)]
        ELSE [NoReg EXCEPT !.kind = "fit"]

\* fin_stats.beta_alpha(geometric=True): lr(bm_log_returns, log_returns),
\* beta = slope, alpha = exp(intercept) - 1.  One row, or an infinite log
\* return, gives NaN; y = x on every row gives slope 1 and intercept 0.
beta_alpha(inst) ==
    LET x == inst.bm_log_returns
        y == inst.log_returns
        rows == paired(x, y)
    IN  IF beta_alpha_is_none(inst) THEN NoReg
        ELSE IF Cardinality(rows) = 1 \/ \E i \in rows : x[i].n = 0 \/ y[i].n = 0
        THEN [NoReg EXCEPT !.kind = "nan"]
        ELSE IF \A i \in rows : FEq(x[i], y[i])
        THEN [NoReg EXCEPT !.kind = "exact", !.beta = R(1, 1), !.alpha = Zero]
        ELSE [NoReg EXCEPT !.kind = "fit"]

\* fin_stats.jensen_alpha(geometric=True):
\* mean_returns - (rf + beta * (bm_mean_returns - rf)); None['beta'] and
\* arithmetic on a None rf raise TypeError, logged
jensen_alpha(inst) ==
    LET reg == beta_alpha(inst)
        bm_mean_returns == mean_returns(inst.bm_log_returns)
        mean == mean_returns(inst.log_returns)
    IN  IF reg.kind = "none" \/ IsNone(inst.rf) THEN NoReg
        ELSE IF reg.kind = "nan" \/ bm_mean_returns.nan \/ mean.nan
        THEN [NoReg EXCEPT !.kind = "nan", !.jensen = NaN]
        ELSE IF reg.kind = "exact" /\ FEq(reg.beta, R(1, 1)) /\ mean = bm_mean_returns
        THEN [NoReg EXCEPT !.kind = "exact", !.jensen = Zero]
        ELSE [NoReg EXCEPT !.kind = "fit"]

----------------------------------------------------------------------------
(* Calls: what a constructor or method hands back to its caller *)

\* op: the call; freq: its frequency argument; exc: the exception that
\* reaches the caller; logged: the exception it swallowed and logged;
\* none: it returned None; then the returned value, by type
NoCall ==
    [op |-> "none", freq |-> "", exc |-> "none", logged |-> "none",
     none |-> TRUE, curve |-> <<>>, val |-> None, rec |-> NoRecovery,
     n |-> 0, keys |-> {}, ratio |-> NoRatio, mean |-> NaNMean,
     reg |-> NoReg, range |-> <<0, 0>>]

\* drawdown(): None (logged AttributeError) when balance was never set
call_drawdown(inst) ==
    IF "balance" \in inst.attrs
    THEN [NoCall EXCEPT !.op = "drawdown", !.none = FALSE,
                        !.curve = drawdown(inst.balance.vals)]
    ELSE [NoCall EXCEPT !.op = "drawdown", !.logged = "AttributeError"]

\* max_dd(): None when drawdown() returned None
call_max_dd(inst) ==
    IF "balance" \in inst.attrs
    THEN [NoCall EXCEPT !.op = "max_dd", !.none = FALSE,
                        !.val = max_dd(inst.balance.vals)]
    ELSE [NoCall EXCEPT !.op = "max_dd", !.logged = "AttributeError"]

\* recovery(): falls off the except branch (None) when balance is missing
call_recovery(inst) ==
    IF "balance" \in inst.attrs
    THEN [NoCall EXCEPT !.op = "recovery", !.rec = recovery(inst.balance),
                        !.none = (recovery(inst.balance) = NoRecovery)]
    ELSE [NoCall EXCEPT !.op = "recovery", !.logged = "AttributeError"]

\* losing_streak(): self.returns is read before the try block, so a missing
\* attribute reaches the caller
call_losing_streak(inst) ==
    IF "returns" \in inst.attrs
    THEN [NoCall EXCEPT !.op = "losing_streak", !.none = FALSE,
                        !.n = losing_streak(inst.returns)]
    ELSE [NoCall EXCEPT !.op = "losing_streak", !.exc = "AttributeError"]

\* the legacy recovery, as the function or as the method
call_calc_recovery(op, v) ==
    [NoCall EXCEPT !.op = op, !.rec = calc_recovery(v),
                   !.none = (calc_recovery(v) = NoRecovery)]

\* positive_returns_pct(): None (logged AttributeError) without returns
call_positive_returns_pct(inst) ==
    IF "returns" \in inst.attrs
    THEN [NoCall EXCEPT !.op = "positive_returns_pct", !.none = FALSE,
                        !.val = positive_returns_pct(inst.returns)]
    ELSE [NoCall EXCEPT !.op = "positive_returns_pct", !.logged = "AttributeError"]

\* calmar_ratio(): without returns min_return() is None and None < 0 raises
\* TypeError, logged
call_calmar_ratio(inst) ==
    IF "returns" \in inst.attrs /\ calmar_ratio(inst).kind # "none"
    THEN [NoCall EXCEPT !.op = "calmar_ratio", !.none = FALSE,
                        !.ratio = calmar_ratio(inst)]
    ELSE [NoCall EXCEPT !.op = "calmar_ratio", !.logged = "TypeError"]

\* mean_returns(): None (logged AttributeError) without log_returns
call_mean_returns(inst) ==
    IF "log_returns" \in inst.attrs
    THEN [NoCall EXCEPT !.op = "mean_returns", !.none = FALSE,
                        !.mean = mean_returns(inst.log_returns)]
    ELSE [NoCall EXCEPT !.op = "mean_returns", !.logged = "AttributeError"]

\* info_ratio(): None (logged AttributeError) without the benchmark
call_info_ratio(inst) ==
    IF {"log_returns", "bm_log_returns"} \subseteq inst.attrs
    THEN [NoCall EXCEPT !.op = "info_ratio", !.none = FALSE,
                        !.ratio = info_ratio(inst)]
    ELSE [NoCall EXCEPT !.op = "info_ratio", !.logged = "AttributeError"]

\* beta_alpha(): None after the logged exception
call_beta_alpha(inst) ==
    IF beta_alpha(inst).kind = "none"
    THEN [NoCall EXCEPT !.op = "beta_alpha",
                        !.logged = IF {"log_returns", "bm_log_returns"} \subseteq inst.attrs
                                   THEN "ValueError" ELSE "AttributeError"]
    ELSE [NoCall EXCEPT !.op = "beta_alpha", !.none = FALSE, !.reg = beta_alpha(inst)]

\* jensen_alpha(): None after the logged exception
call_jensen_alpha(inst) ==
    IF jensen_alpha(inst).kind = "none"
    THEN [NoCall EXCEPT !.op = "jensen_alpha", !.logged = "TypeError"]
    ELSE [NoCall EXCEPT !.op = "jensen_alpha", !.none = FALSE, !.reg = jensen_alpha(inst)]

\* get_stats_freq called on its own: the exceptions of check_bal_freq reach
\* the caller; a failed table lookup is logged (KeyError) and None returned
call_get_stats_freq(bal, bm, freq) ==
    LET k == get_stats_freq(bal, bm, freq)
    IN  IF k.exc # "none"
        THEN [NoCall EXCEPT !.op = "get_stats_freq", !.freq = freq, !.exc = k.exc]
        ELSE IF k.val = 0
        THEN [NoCall EXCEPT !.op = "get_stats_freq", !.freq = freq,
                            !.logged = "KeyError"]
        ELSE [NoCall EXCEPT !.op = "get_stats_freq", !.freq = freq,
                            !.none = FALSE, !.n = k.val]

----------------------------------------------------------------------------
(* sbs.get_stats: src/__init__.py *)

\* the parameters jensen_alpha declares (core.py) and the keywords
\* get_stats passes to it
jensen_alpha_params == {"self", "geometric"}
jensen_alpha_keywords == {"rf"}

\* a call with keywords kw of a method declaring params: TypeError on a
\* keyword the method does not declare
call_accepts(params, kw) == kw \subseteq params

MetricNames ==
    {"Stats Since", "Geometric Mean Return", "Standard Deviation",
     "Downside Standard Deviation", "Sharpe Ratio", "Sortino Ratio",
     "Calmar Ratio", "Max DD", "Max Return", "Min Return", "VAR 99", "ES 99",
     "Positive %", "Negative %", "Max Losing Streak", "Recovery Max DD",
     "Correlation"}

StrategyMetricNames == {"Information Ratio", "Beta", "Alpha", "Jensen Alpha"}

\* line 90 of get_stats: calmar_ratio = excess_return / abs(max_loss), a
\* division of numpy floats: inf (NaN for 0/0) when max_loss is 0
get_stats_calmar_ratio(mean, rf, max_loss) ==
    IF mean.nan \/ max_loss.nan \/ (max_loss.n = 0 /\ MeanCmp(mean, rf) = 0)
    THEN NaNRatio
    ELSE [kind |-> IF max_loss.n = 0 THEN "inf" ELSE "number",
          sign |-> MeanCmp(mean, rf),
          mean |-> mean, rf |-> rf, downside |-> max_loss]

\* get_stats on an sbs holding bal and bm: the fin_stats it stores in
\* self.stats (stored |-> FALSE when line 61 is not reached) and what it
\* returns.  Every exception inside is logged and turns into None; ratio is
\* the 'Calmar Ratio' entry of the info dictionary once line 99 has built it.
get_stats(bal, bm, freq) ==
    LET rf == get_rf(R(AnnualRfNum, AnnualRfDen), freq)
        c == fin_stats_init(bal, freq, rf, bm)
        inst == c.inst
        none == [NoCall EXCEPT !.op = "get_stats", !.freq = freq]
        info == [none EXCEPT !.ratio =
                    get_stats_calmar_ratio(mean_returns(inst.log_returns), rf,
                                           min_return(inst.returns))]
    IN  IF bal.none \/ bm.none
        THEN [stored |-> FALSE, inst |-> NoAttrs, ret |-> none]
        ELSE [stored |-> TRUE, inst |-> inst,
              ret |->
                \* excess_return = mean - rf with mean or rf None
                IF "log_returns" \notin inst.attrs \/ IsNone(rf) THEN none
                \* linreg['beta'] with linreg None
                ELSE IF beta_alpha_is_none(inst) THEN info
                \* self.stats.jensen_alpha(rf=rf)
                ELSE IF ~call_accepts(jensen_alpha_params, jensen_alpha_keywords)
                THEN info
                ELSE [info EXCEPT !.none = FALSE,
                                  !.keys = MetricNames \cup StrategyMetricNames]]

----------------------------------------------------------------------------
(* sbs.__init__: src/__init__.py, check_data_index: src/src/utils.py *)

\* an sbs on which no attribute has been set
NoSbs == [attrs |-> {}, balance |-> NoneSeries, bm_balance |-> NoneSeries]

\* start_date / end_date left at None
NoDate == -1

\* data.loc[start_date:end_date]: the observations dated within the range,
\* both ends included, an end left at None being open
Slice(data, start_date, end_date) ==
    LET inside == {i \in 1..Len(data.vals) :
                      /\ start_date = NoDate \/ DateOf(data.freq, data.first + i) >= start_date
                      /\ end_date = NoDate \/ DateOf(data.freq, data.first + i) <= end_date}
        lo == CHOOSE i \in inside : \A j \in inside : i <= j
        hi == CHOOSE i \in inside : \A j \in inside : i >= j
    IN  IF inside = {} THEN [data EXCEPT !.vals = <<>>]
        ELSE [data EXCEPT !.vals = SubSeq(data.vals, lo, hi), !.first = @ + lo - 1]

\* default_dates: the first and the last timestamp of the series
default_dates(dta) ==
    <<DateOf(dta.freq, dta.first + 1), DateOf(dta.freq, dta.first + Len(dta.vals))>>

\* check_data_index: a DatetimeIndex is left alone; any other index is
\* replaced, on the caller's series, by pd.to_datetime(data.index), and a
\* failed conversion raises ValueError.  data is the series afterwards.
check_data_index(data) ==
    IF data.index = "datetime" THEN [exc |-> "none", data |-> data]
    ELSE IF data.index = "str"
    THEN [exc |-> "none", data |-> [data EXCEPT !.index = "datetime"]]
    ELSE [exc |-> "ValueError", data |-> data]

\* sbs.__init__: the instance it leaves, the caller's two series afterwards
\* and the exception it logs.  The loop takes bm_balance first, then
\* balance, and files each slice under the name of its series.
sbs_init(bal, bm, start_date, end_date) ==
    LET dates == IF start_date = NoDate /\ end_date = NoDate
                 THEN default_dates(bal) ELSE <<start_date, end_date>>
        cbm == check_data_index(bm)
        cbal == check_data_index(bal)
        formatted_data ==
            [name \in {bm.name, bal.name} |->
                IF name = bal.name THEN Slice(cbal.data, dates[1], dates[2])
                ELSE Slice(cbm.data, dates[1], dates[2])]
    IN  IF bal.none \/ bm.none
        THEN [self |-> NoSbs, balance |-> bal, bm_balance |-> bm,
              logged |-> "AttributeError"]
        ELSE IF cbm.exc # "none"
        THEN [self |-> NoSbs, balance |-> bal, bm_balance |-> bm, logged |-> cbm.exc]
        ELSE IF cbal.exc # "none"
        THEN [self |-> NoSbs, balance |-> bal, bm_balance |-> cbm.data,
              logged |-> cbal.exc]
        ELSE [self |-> [attrs |-> {"balance", "bm_balance"},
                        balance |-> formatted_data[bal.name],
                        bm_balance |-> formatted_data[bm.name]],
              balance |-> cbal.data, bm_balance |-> cbm.data, logged |-> "none"]

----------------------------------------------------------------------------
(* The engine as a state machine *)

\* the frequencies tried for a benchmark next to a balance of frequency f
BenchmarkFreqs(f) == {f, "D", "M"}

\* the frequencies tried for the balances of BalanceInputs: calendar days
\* (steps and days agree) and month ends (they differ)
PathFreqs == {"D", "M"}

Init ==
    /\ \/ \E v \in BalanceInputs, f \in PathFreqs :
             /\ balance = Series(v, f)
             /\ bm_balance = Series(v, f)
       \/ \E v \in FreqBalanceInputs, f \in SamplingFreqs \cup {NoFreq} :
             /\ balance = Series(v, f)
             /\ \/ bm_balance = NoneSeries
                \/ \E w \in BenchmarkInputs(v), g \in BenchmarkFreqs(f) :
                      bm_balance = Series(w, g)
    /\ stats = [exists |-> FALSE, inst |-> NoAttrs]
    /\ ret = NoCall
    /\ consumed = <<>>
    /\ current_streak = 0
    /\ max_losing_streak = 0
    /\ sbs_self = NoSbs

\* fin_stats(balance, stats_freq, rf, bm_balance), rf standardized as
\* get_stats does
Construct(freq) ==
    LET c == fin_stats_init(balance, freq, get_rf(R(AnnualRfNum, AnnualRfDen), freq), bm_balance)
    IN  /\ stats' = IF c.raised = "none" THEN [exists |-> TRUE, inst |-> c.inst]
                    ELSE stats
        /\ ret' = [NoCall EXCEPT !.op = "fin_stats", !.freq = freq,
                                 !.exc = c.raised, !.logged = c.logged]
        /\ UNCHANGED <<balance, bm_balance>>
        /\ UNCHANGED loopVars
        /\ UNCHANGED sbs_self

\* a drawdown() that keeps the running peak in self.balance
DrawdownInPlace ==
    /\ stats.exists
    /\ ret' = call_drawdown(stats.inst)
    /\ stats' = [stats EXCEPT !.inst.balance.vals = cummax(@)]
    /\ UNCHANGED <<balance, bm_balance>>
    /\ UNCHANGED loopVars
    /\ UNCHANGED sbs_self

Drawdown ==
    /\ stats.exists
    /\ ret' = call_drawdown(stats.inst)
    /\ UNCHANGED <<balance, bm_balance, stats>>
    /\ UNCHANGED loopVars
    /\ UNCHANGED sbs_self

MaxDD ==
    /\ stats.exists
    /\ ret' = call_max_dd(stats.inst)
    /\ UNCHANGED <<balance, bm_balance, stats>>
    /\ UNCHANGED loopVars
    /\ UNCHANGED sbs_self

Recovery ==
    /\ stats.exists
    /\ ret' = call_recovery(stats.inst)
    /\ UNCHANGED <<balance, bm_balance, stats>>
    /\ UNCHANGED loopVars
    /\ UNCHANGED sbs_self

LosingStreak ==
    /\ stats.exists
    /\ ret' = call_losing_streak(stats.inst)
    /\ UNCHANGED <<balance, bm_balance, stats>>
    /\ UNCHANGED loopVars
    /\ UNCHANGED sbs_self

PositiveReturnsPct ==
    /\ stats.exists
    /\ ret' = call_positive_returns_pct(stats.inst)
    /\ UNCHANGED <<balance, bm_balance, stats>>
    /\ UNCHANGED loopVars
    /\ UNCHANGED sbs_self

CalmarRatio ==
    /\ stats.exists
    /\ ret' = call_calmar_ratio(stats.inst)
    /\ UNCHANGED <<balance, bm_balance, stats>>
    /\ UNCHANGED loopVars
    /\ UNCHANGED sbs_self

MeanReturns ==
    /\ stats.exists
    /\ ret' = call_mean_returns(stats.inst)
    /\ UNCHANGED <<balance, bm_balance, stats>>
    /\ UNCHANGED loopVars
    /\ UNCHANGED sbs_self

InfoRatio ==
    /\ stats.exists
    /\ ret' = call_info_ratio(stats.inst)
    /\ UNCHANGED <<balance, bm_balance, stats>>
    /\ UNCHANGED loopVars
    /\ UNCHANGED sbs_self

BetaAlpha ==
    /\ stats.exists
    /\ ret' = call_beta_alpha(stats.inst)
    /\ UNCHANGED <<balance, bm_balance, stats>>
    /\ UNCHANGED loopVars
    /\ UNCHANGED sbs_self

JensenAlpha ==
    /\ stats.exists
    /\ ret' = call_jensen_alpha(stats.inst)
    /\ UNCHANGED <<balance, bm_balance, stats>>
    /\ UNCHANGED loopVars
    /\ UNCHANGED sbs_self

\* get_stats_freq(balance, bm_balance, freq)
GetStatsFreq(freq) ==
    /\ ret' = call_get_stats_freq(balance, bm_balance, freq)
    /\ UNCHANGED <<balance, bm_balance, stats>>
    /\ UNCHANGED loopVars
    /\ UNCHANGED sbs_self

\* sbs.get_stats(freq) with the default annual_rf
GetStats(freq) ==
    LET g == get_stats(balance, bm_balance, freq)
    IN  /\ stats' = IF g.stored THEN [exists |-> TRUE, inst |-> g.inst] ELSE stats
        /\ ret' = g.ret
        /\ UNCHANGED <<balance, bm_balance>>
        /\ UNCHANGED loopVars
        /\ UNCHANGED sbs_self

Next ==
    \/ \E freq \in StatsFreqs : Construct(freq)
    \/ Drawdown
    \/ MaxDD
    \/ Recovery
    \/ LosingStreak
    \/ PositiveReturnsPct
    \/ CalmarRatio
    \/ MeanReturns
    \/ InfoRatio
    \/ BetaAlpha
    \/ JensenAlpha
    \/ \E freq \in StatsFreqs : GetStats(freq)
    \/ \E freq \in StatsFreqs : GetStatsFreq(freq)

Spec == Init /\ [][Next]_vars
----------------------------------------------------------------------------
(* The losing_streak loop as a state machine: one action per iteration *)

\* the returns fed to the loop: -0.03 .. 0.02 and an undefined return
ReturnInputs == {R(k, 100) : k \in -3..2} \cup {NaN}

StreakInit ==
    /\ balance = NoneSeries
    /\ bm_balance = NoneSeries
    /\ stats = [exists |-> FALSE, inst |-> NoAttrs]
    /\ ret = NoCall
    /\ consumed = <<>>
    /\ current_streak = 0
    /\ max_losing_streak = 0
    /\ sbs_self = NoSbs

\* the body of `for x in balance_pct` on the next return x
StreakIter(x) ==
    LET st == streak_step([current_streak |-> current_streak,
                           max_losing_streak |-> max_losing_streak], x)
    IN  /\ Len(consumed) < MaxRets
        /\ consumed' = Append(consumed, x)
        /\ current_streak' = st.current_streak
        /\ max_losing_streak' = st.max_losing_streak
        /\ UNCHANGED <<balance, bm_balance, stats, ret, sbs_self>>

StreakNext == \E x \in ReturnInputs : StreakIter(x)

SpecStreak == StreakInit /\ [][StreakNext]_vars

----------------------------------------------------------------------------
(* The legacy recovery: src/stats_funcs.py, src/funcs.py *)

PositiveInputs == {v \in BalanceInputs : \A i \in 1..Len(v) : v[i] > 0}

LegacyInit ==
    /\ \E v \in PositiveInputs, f \in PathFreqs :
          /\ balance = Series(v, f)
          /\ bm_balance = Series(v, f)
    /\ stats = [exists |-> FALSE, inst |-> NoAttrs]
    /\ ret = NoCall
    /\ consumed = <<>>
    /\ current_streak = 0
    /\ max_losing_streak = 0
    /\ sbs_self = NoSbs

\* stats_funcs.calc_recovery(balance)
CalcRecovery ==
    /\ ret' = call_calc_recovery("calc_recovery", balance.vals)
    /\ UNCHANGED <<balance, bm_balance, stats>>
    /\ UNCHANGED loopVars
    /\ UNCHANGED sbs_self

\* funcs.fin_stats.recovery() on an instance whose self.balance is balance
FuncsRecovery ==
    /\ ret' = call_calc_recovery("funcs.recovery", balance.vals)
    /\ UNCHANGED <<balance, bm_balance, stats>>
    /\ UNCHANGED loopVars
    /\ UNCHANGED sbs_self

LegacyNext == CalcRecovery \/ FuncsRecovery

SpecLegacy == LegacyInit /\ [][LegacyNext]_vars

----------------------------------------------------------------------------
(* The construction of an sbs as a state machine *)

\* the names of (balance, bm_balance): different, equal, both unnamed
SbsNames == {<<"strategy", "benchmark">>, <<"strategy", "strategy">>, <<NoName, NoName>>}

\* a DatetimeIndex, an index of date strings, an index of other labels
IndexKinds == {"datetime", "str", "bad"}

\* the start_date and end_date tried: None and the first days of the index
SbsDates == {NoDate, 0, 1, 2}

SbsInit ==
    /\ \E v \in FreqBalanceInputs, f \in PathFreqs, names \in SbsNames,
          kinds \in IndexKinds \X IndexKinds :
          \E w \in BenchmarkInputs(v) :
             /\ balance = [Series(v, f) EXCEPT !.name = names[1], !.index = kinds[1]]
             /\ bm_balance = [Series(w, f) EXCEPT !.name = names[2], !.index = kinds[2]]
    /\ stats = [exists |-> FALSE, inst |-> NoAttrs]
    /\ ret = NoCall
    /\ consumed = <<>>
    /\ current_streak = 0
    /\ max_losing_streak = 0
    /\ sbs_self = NoSbs

\* sbs(balance, bm_balance, start_date, end_date)
SbsConstruct(start_date, end_date) ==
    LET c == sbs_init(balance, bm_balance, start_date, end_date)
    IN  /\ sbs_self' = c.self
        /\ balance' = c.balance
        /\ bm_balance' = c.bm_balance
        /\ ret' = [NoCall EXCEPT !.op = "sbs", !.logged = c.logged,
                                 !.none = FALSE,
                                 !.range = <<start_date, end_date>>]
        /\ UNCHANGED stats
        /\ UNCHANGED loopVars

SbsNext == \E start_date, end_date \in SbsDates : SbsConstruct(start_date, end_date)

SpecSbs == SbsInit /\ [][SbsNext]_vars

----------------------------------------------------------------------------
(* Properties *)

\* the inputs of the last constructor or get_stats call
SameFrequency ==
    /\ ~balance.none /\ ~bm_balance.none
    /\ balance.freq \in SamplingFreqs
    /\ balance.freq = bm_balance.freq

FrequencyMismatch ==
    /\ ~balance.none /\ ~bm_balance.none
    /\ balance.freq \in SamplingFreqs /\ bm_balance.freq \in SamplingFreqs
    /\ balance.freq # bm_balance.freq

NonDecreasing(v) == \A i \in 1..(Len(v) - 1) : v[i] <= v[i + 1]

\* C1: with a benchmark of the same sampling frequency and a reporting
\* frequency known to both tables, get_stats returns a dictionary (not
\* None) holding every metric name, the four strategy metrics included.
C1_ReportHasEveryMetric ==
    (/\ ret.op = "get_stats"
     /\ SameFrequency
     /\ ret.freq \in DOMAIN bal_freq_standarizer[balance.freq]
     /\ ret.freq \in DOMAIN rf_standarizer)
    => (/\ ~ret.none
        /\ MetricNames \cup StrategyMetricNames \subseteq ret.keys)

\* C2: the curve returned by drawdown() is <= 0 at every timestamp and is
\* exactly 0 at the first one.
C2_DrawdownNonPositive ==
    (ret.op = "drawdown" /\ ~ret.none)
    => (/\ Len(ret.curve) = Len(balance.vals)
        /\ \A t \in 1..Len(ret.curve) : FLe(ret.curve[t], Zero)
        /\ ret.curve[1].n = 0 /\ ~ret.curve[1].nan)

\* C2 witness: drawdown() has returned a curve that dips below 0
C2_Witness ==
    /\ ret.op = "drawdown" /\ ~ret.none
    /\ \E t \in 1..Len(ret.curve) : FLt(ret.curve[t], Zero)

\* C3: max_dd() is the minimum of the drawdown curve (a value of the curve
\* that no value of the curve is below), and it is exactly 0 for a
\* non-decreasing balance.
C3_MaxDDIsMinimum ==
    (ret.op = "max_dd" /\ ~ret.none)
    => LET dd == drawdown(balance.vals)
       IN  /\ \E t \in 1..Len(dd) : ret.val = dd[t]
           /\ \A t \in 1..Len(dd) : FLe(ret.val, dd[t])
           /\ NonDecreasing(balance.vals) => (ret.val.n = 0 /\ ~ret.val.nan)

\* C3 witness: max_dd() has returned 0 for a balance that rises
C3_Witness ==
    /\ ret.op = "max_dd" /\ ~ret.none
    /\ Len(balance.vals) >= 3
    /\ NonDecreasing(balance.vals)
    /\ balance.vals[1] < balance.vals[Len(balance.vals)]
    /\ ret.val = Zero

\* C4: when the maximum drawdown is exactly 0, recovery() reports an
\* undefined value: not a number, not the unrecovered sentinel.
C4_NoDrawdownRecoveryUndefined ==
    (/\ ret.op = "recovery"
     /\ "balance" \in stats.inst.attrs
     /\ FEq(max_dd(balance.vals), Zero))
    => ret.rec = NoRecovery

\* the trough of the maximum drawdown, the balance of the peak it fell from
\* and the first timestamp at or after the trough that is back at the peak,
\* stated on the balance values alone (0 when there is none)
RunningPeak(v, t) == CHOOSE m \in {v[i] : i \in 1..t} : \A i \in 1..t : v[i] <= m
Deeper(v, s, t) ==
    (v[s] - RunningPeak(v, s)) * RunningPeak(v, t) < (v[t] - RunningPeak(v, t)) * RunningPeak(v, s)
Trough(v) ==
    CHOOSE t \in 1..Len(v) :
        /\ \A s \in 1..Len(v) : ~Deeper(v, s, t)
        /\ \A s \in 1..(t - 1) : Deeper(v, t, s)
HasLoss(v) == \E t \in 1..Len(v) : v[t] < RunningPeak(v, t)
Recovered(v) == {p \in Trough(v)..Len(v) : v[p] >= RunningPeak(v, Trough(v))}
FirstRecovered(v) == CHOOSE p \in Recovered(v) : \A q \in Recovered(v) : p <= q

\* C5: when the maximum drawdown is negative and the balance comes back to
\* the peak, recovery() returns the number of series steps from the trough
\* to the first timestamp back at the peak, whatever the spacing of the
\* timestamps (2 for Scenario A).
C5_RecoveryCountsSteps ==
    (/\ ret.op = "recovery"
     /\ "balance" \in stats.inst.attrs
     /\ HasLoss(balance.vals)
     /\ Recovered(balance.vals) # {})
    => ret.rec = Days(FirstRecovered(balance.vals) - Trough(balance.vals))

Loss(x) == ~x.nan /\ x.n < 0

\* the lengths of the runs of consecutive losses in s
LossRuns(s) ==
    {k \in 1..Len(s) : \E i \in 1..(Len(s) - k + 1) : \A j \in i..(i + k - 1) : Loss(s[j])}
LongestLossRun(s) ==
    IF LossRuns(s) = {} THEN 0
    ELSE CHOOSE k \in LossRuns(s) : \A m \in LossRuns(s) : m <= k

\* the length of the run of losses that ends s
TrailingLossRun(s) ==
    LET tails == {k \in 0..Len(s) : \A j \in (Len(s) - k + 1)..Len(s) : Loss(s[j])}
    IN  CHOOSE k \in tails : \A m \in tails : m <= k

ScenarioCReturns == <<R(2, 100), R(-1, 100), R(-3, 100), R(1, 100), R(-2, 100)>>

\* C7: the loop of losing_streak leaves in max_losing_streak the length of
\* the longest run of consecutive strictly negative returns (0 without
\* one); a zero or undefined return ends a run; Scenario C gives 2.
C7_LongestLosingRun ==
    /\ max_losing_streak = LongestLossRun(consumed)
    /\ max_losing_streak = losing_streak(consumed)
    /\ consumed = ScenarioCReturns => max_losing_streak = 2

\* C7 witness: the loop has run over Scenario C
C7_Witness ==
    /\ consumed = ScenarioCReturns
    /\ max_losing_streak = 2

\* C8: one more return never lowers the maximum losing streak; a
\* non-negative return leaves it unchanged; a negative return raises it
\* exactly when the run of losses it extends is longer than the old maximum.
C8_StreakMonotone ==
    [][LET x == consumed'[Len(consumed')]
           old == losing_streak(consumed)
           new == losing_streak(consumed')
       IN  /\ new >= old
           /\ FGe(x, Zero) => new = old
           /\ Loss(x) => /\ new \in {old, old + 1}
                         /\ (new > old) <=> (TrailingLossRun(consumed') > old)]_vars

\* C8 witness: a loss has been appended after a longer, finished run
C8_Witness ==
    /\ Len(consumed) >= 4
    /\ Loss(consumed[Len(consumed)])
    /\ TrailingLossRun(consumed) < max_losing_streak
    /\ \E i \in 1..Len(consumed) : FEq(consumed[i], Zero)

\* C9: constructing the engine from series of different sampling
\* frequencies fails: the error reaches the caller and no instance is left.
C9_MismatchSurfaces ==
    (ret.op = "fin_stats" /\ FrequencyMismatch)
    => (ret.exc # "none" /\ ~stats.exists)

\* C10: when the two frequencies differ, none of returns, log_returns,
\* bm_returns, bm_log_returns is ever set on the instance.
C10_NoReturnsOnMismatch ==
    FrequencyMismatch
    => stats.inst.attrs \cap {"returns", "log_returns", "bm_returns", "bm_log_returns"} = {}

\* C10 witness: the constructor has run on mismatched series and logged the
\* error of the frequency check
C10_Witness ==
    /\ ret.op = "fin_stats"
    /\ FrequencyMismatch
    /\ ret.logged = "ValueError"
    /\ ret.freq \in DOMAIN bal_freq_standarizer[balance.freq]
    /\ Len(balance.vals) >= 2

\* C11: get_stats_freq signals an error to its caller whenever the pair
\* (sampling frequency, reporting frequency) has no entry in the table; it
\* returns nothing in that case.
C11_UnknownPairRaises ==
    (/\ ret.op = "get_stats_freq"
     /\ SameFrequency
     /\ ret.freq \notin DOMAIN bal_freq_standarizer[balance.freq])
    => ret.exc # "none"

\* C12: the benchmark is optional.  A fin_stats built with bm_balance=None
\* from a balance with a known frequency and a reporting frequency of the
\* table is initialised without error, and max_dd, losing_streak and
\* positive_returns_pct return values; for Scenario B at step count 1 they
\* are 0, 0 and 1.0.
C12_BenchmarkOptional ==
    (/\ ret.op = "fin_stats"
     /\ bm_balance.none
     /\ balance.freq \in SamplingFreqs
     /\ ret.freq \in DOMAIN bal_freq_standarizer[balance.freq])
    => /\ ret.exc = "none" /\ ret.logged = "none"
       /\ stats.exists
       /\ ~call_max_dd(stats.inst).none
       /\ call_losing_streak(stats.inst).exc = "none"
       /\ ~call_positive_returns_pct(stats.inst).none
       /\ (balance.vals = ScenarioB /\ bal_freq_standarizer[balance.freq][ret.freq] = 1)
            => /\ call_max_dd(stats.inst).val = Zero
               /\ call_losing_streak(stats.inst).n = 0
               /\ FEq(call_positive_returns_pct(stats.inst).val, R(1, 1))

\* C13: positive_returns_pct() is the number of defined returns that are
\* >= 0 over the number of defined returns: a return of exactly 0 counts,
\* an undefined return is in neither number.
C13_PositiveFraction ==
    (/\ ret.op = "positive_returns_pct" /\ ~ret.none
     /\ \E i \in 1..Len(stats.inst.returns) : ~stats.inst.returns[i].nan)
    => LET rs == stats.inst.returns
           defined == {i \in 1..Len(rs) : ~rs[i].nan}
           losses == {i \in defined : rs[i].n < 0}
       IN  /\ ~ret.val.nan
           /\ ret.val.n * Cardinality(defined)
                = (Cardinality(defined) - Cardinality(losses)) * ret.val.d

\* C13 witness: the fraction has been computed over a series holding an
\* undefined return, a return of exactly 0 and a loss
C13_Witness ==
    /\ ret.op = "positive_returns_pct" /\ ~ret.none
    /\ \E i, j, k \in 1..Len(stats.inst.returns) :
          /\ stats.inst.returns[i].nan
          /\ FEq(stats.inst.returns[j], Zero)
          /\ FLt(stats.inst.returns[k], Zero)
    /\ FEq(ret.val, R(1, 2))

\* the worst defined return of the instance is >= 0 / is negative
WorstReturnNonNegative ==
    /\ "returns" \in stats.inst.attrs
    /\ \E i \in 1..Len(stats.inst.returns) : ~stats.inst.returns[i].nan
    /\ \A i \in 1..Len(stats.inst.returns) :
          stats.inst.returns[i].nan \/ stats.inst.returns[i].n >= 0

WorstReturnNegative ==
    /\ "returns" \in stats.inst.attrs
    /\ \E i \in 1..Len(stats.inst.returns) : FLt(stats.inst.returns[i], Zero)

\* C14: every Calmar value the system produces, the one calmar_ratio()
\* returns and the 'Calmar Ratio' entry get_stats builds, is NaN when the
\* worst return of the period is >= 0.
C14_CalmarUndefinedWithoutLoss ==
    (/\ ret.op \in {"calmar_ratio", "get_stats"}
     /\ ret.ratio.kind # "none"
     /\ WorstReturnNonNegative)
    => ret.ratio.kind = "nan"

\* C15: when the worst return is negative (on a positive balance, with a
\* defined mean return), calmar_ratio() is (mean - rf) / |worst return|: it carries the
\* sign of the excess return mean - rf.
C15_CalmarKeepsSign ==
    (/\ ret.op = "calmar_ratio"
     /\ ~ret.none
     /\ \A i \in 1..Len(balance.vals) : balance.vals[i] > 0
     /\ WorstReturnNegative
     /\ ~mean_returns(stats.inst.log_returns).nan)
    => /\ ret.ratio.kind = "number"
       /\ ret.ratio.mean = mean_returns(stats.inst.log_returns)
       /\ ret.ratio.rf = stats.inst.rf
       /\ FEq(ret.ratio.downside, min_return(stats.inst.returns))
       /\ ret.ratio.sign = MeanCmp(mean_returns(stats.inst.log_returns), stats.inst.rf)

\* C16: a metric-level failure does not abort the report.  When Beta/Alpha
\* cannot be computed (fewer than 2 paired observations), get_stats still
\* returns a report holding every metric name.
C16_ReportSurvivesRegressionFailure ==
    (/\ ret.op = "get_stats"
     /\ ~balance.none /\ ~bm_balance.none
     /\ {"log_returns", "bm_log_returns"} \subseteq stats.inst.attrs
     /\ Cardinality(paired(stats.inst.bm_log_returns, stats.inst.log_returns)) < 2)
    => /\ ~ret.none
       /\ ret.keys = MetricNames \cup StrategyMetricNames

\* the metric operations of the engine
MetricOps ==
    {"drawdown", "max_dd", "recovery", "losing_streak", "positive_returns_pct",
     "calmar_ratio", "mean_returns", "info_ratio", "beta_alpha",
     "jensen_alpha"}

OutperfStdZero ==
    LET x == stats.inst.log_returns
        y == stats.inst.bm_log_returns
        rows == {i \in 1..Len(x) : ~x[i].nan /\ ~y[i].nan}
    IN  /\ {"log_returns", "bm_log_returns"} \subseteq stats.inst.attrs
        /\ Cardinality(rows) >= 2
        /\ \A i \in rows : x[i].n > 0 /\ y[i].n > 0
        /\ \A i, j \in rows :
              x[i].n * y[i].d * x[j].d * y[j].n = x[j].n * y[j].d * x[i].d * y[i].n

\* C18: info_ratio() returns NaN whenever the standard deviation of the
\* series-minus-benchmark return differences is 0: no infinity, no
\* exception, no None.
C18_InfoRatioNaNOnZeroStd ==
    (ret.op = "info_ratio" /\ OutperfStdZero)
    => /\ ret.exc = "none" /\ ret.logged = "none" /\ ~ret.none
       /\ ret.ratio.kind = "nan"

\* C18 witness: info_ratio() has returned on an engine that beats its
\* benchmark by the same non-zero amount in every period
C18_Witness ==
    /\ ret.op = "info_ratio" /\ ~ret.none
    /\ OutperfStdZero
    /\ \E i \in 1..Len(stats.inst.log_returns) :
          /\ ~stats.inst.log_returns[i].nan /\ ~stats.inst.bm_log_returns[i].nan
          /\ ~FEq(stats.inst.log_returns[i], stats.inst.bm_log_returns[i])

\* C19: a balance holding a value <= 0 makes the constructor signal
\* NonPositiveBalance to its caller, and no log-return series is produced.
C19_NonPositiveBalanceRaises ==
    (/\ ret.op = "fin_stats"
     /\ ~balance.none
     /\ \E i \in 1..Len(balance.vals) : balance.vals[i] <= 0)
    => /\ ret.exc = "NonPositiveBalance"
       /\ "log_returns" \notin stats.inst.attrs

\* the balance of the engine grows at a constant rate per period
ConstantGrowth ==
    LET b == stats.inst.balance.vals
    IN  /\ {"balance", "log_returns"} \subseteq stats.inst.attrs
        /\ Len(b) >= 2
        /\ \A t \in 1..Len(b) : b[t] > 0
        /\ \A t \in 1..(Len(b) - 1) : b[t + 1] * b[1] = b[t] * b[2]

\* the step count of the engine: the positions without a return
StepCount == Cardinality({i \in 1..Len(stats.inst.returns) : stats.inst.returns[i].nan})

\* C20 as stated: on a balance of constant growth rate r = b[2]/b[1] - 1,
\* mean_returns(geometric=True) equals r for every step count.
C20_MeanEqualsRate ==
    (ret.op = "mean_returns" /\ ~ret.none /\ ConstantGrowth)
    => LET b == stats.inst.balance.vals
       IN  /\ ~ret.mean.nan
           /\ MeanCmp(ret.mean, R(b[2] - b[1], b[1])) = 0

\* C20 amended: on a balance of constant growth rate r, sampled more than k
\* times, mean_returns(geometric=True) at step count k equals (1+r)^k - 1,
\* which is r at k = 1; it is NaN when the balance has no k-step return.
C20_MeanEqualsCompoundedRate ==
    (ret.op = "mean_returns" /\ ~ret.none /\ ConstantGrowth)
    => LET b == stats.inst.balance.vals
           k == StepCount
       IN  IF k >= Len(b) THEN ret.mean.nan
           ELSE /\ ~ret.mean.nan
                /\ BigCmp(BigMulPow(ret.mean.pn, b[1], k * ret.mean.c),
                          BigMulPow(ret.mean.pd, b[2], k * ret.mean.c)) = 0

\* C20 witness: the mean has been computed at step count 2 on a balance
\* that doubles every period
C20_Witness ==
    /\ ret.op = "mean_returns" /\ ~ret.none
    /\ ConstantGrowth
    /\ stats.inst.balance.vals = Doubling
    /\ StepCount = 2
    /\ MeanCmp(ret.mean, R(3, 1)) = 0

\* the engine's benchmark has the log returns of its balance, at least two
\* of them defined, all finite
IdenticalBenchmark ==
    LET x == stats.inst.bm_log_returns
        y == stats.inst.log_returns
    IN  /\ {"log_returns", "bm_log_returns"} \subseteq stats.inst.attrs
        /\ Len(x) = Len(y)
        /\ \A i \in 1..Len(y) : x[i].nan = y[i].nan /\ (~y[i].nan => FEq(x[i], y[i]))
        /\ \A i \in 1..Len(y) : ~y[i].nan => y[i].n > 0
        /\ Cardinality({i \in 1..Len(y) : ~y[i].nan}) >= 2

\* every defined log return of the engine is the same
ConstantReturns ==
    \A i, j \in 1..Len(stats.inst.log_returns) :
        (~stats.inst.log_returns[i].nan /\ ~stats.inst.log_returns[j].nan)
            => FEq(stats.inst.log_returns[i], stats.inst.log_returns[j])

\* beta = 1 and alpha = 0, or Jensen's alpha = 0, in the last result
UnitBetaZeroAlpha ==
    /\ ~ret.none
    /\ ret.reg.kind = "exact"
    /\ ret.op = "beta_alpha" => FEq(ret.reg.beta, R(1, 1)) /\ FEq(ret.reg.alpha, Zero)
    /\ ret.op = "jensen_alpha" => FEq(ret.reg.jensen, Zero)

C22_ConstructionLeavesInputsAlone ==
    [][balance' = balance /\ bm_balance' = bm_balance]_vars

\* the values of a series dated within the range of the last construction
\* (the first to the last timestamp of the balance when no date is given)
Restricted(data) ==
    LET lo == IF ret.range = <<NoDate, NoDate>> THEN DateOf(balance.freq, 1)
              ELSE ret.range[1]
        hi == IF ret.range = <<NoDate, NoDate>>
              THEN DateOf(balance.freq, Len(balance.vals))
              ELSE ret.range[2]
        keep(i) == /\ lo = NoDate \/ DateOf(data.freq, i) >= lo
                   /\ hi = NoDate \/ DateOf(data.freq, i) <= hi
        positions == SelectSeq([i \in 1..Len(data.vals) |-> i], keep)
    IN  [j \in 1..Len(positions) |-> data.vals[positions[j]]]

\* C26: after a construction that logged no error, self.balance is the
\* supplied balance restricted to [start_date, end_date] and
\* self.bm_balance is the supplied benchmark restricted to the same range,
\* also when the two series have the same name or no name.
C26_SbsKeepsBothSeries ==
    (ret.op = "sbs" /\ ret.logged = "none")
    => /\ {"balance", "bm_balance"} \subseteq sbs_self.attrs
       /\ sbs_self.balance.vals = Restricted(balance)
       /\ sbs_self.balance.name = balance.name
       /\ sbs_self.bm_balance.vals = Restricted(bm_balance)
       /\ sbs_self.bm_balance.name = bm_balance.name

\* the timestamps after the trough that are back at the peak it fell from
RecoveredAfter(v) == {p \in Recovered(v) : p > Trough(v)}

\* C23: the legacy recovery (stats_funcs.calc_recovery,
\* funcs.fin_stats.recovery) returns None whenever no balance after the
\* trough of the maximum drawdown reaches the peak the trough fell from; a
\* number is returned only when such a balance exists, and it is the count
\* of steps from the trough to the first such balance.
C23_LegacyRecoveryCountsFromTrough ==
    (ret.op \in {"calc_recovery", "funcs.recovery"})
    => LET v == balance.vals
           back == HasLoss(v) /\ RecoveredAfter(v) # {}
       IN  /\ ~back => ret.rec = NoRecovery
           /\ ret.rec.kind = "int"
                => /\ back
                   /\ ret.rec.val = FirstRecovered(v) - Trough(v)

\* the positions at which the drawdown is at its minimum
TroughTies(v) ==
    {t \in 1..Len(v) : \A s \in 1..Len(v) : ~Deeper(v, s, t)}

FirstTie(v) == CHOOSE t \in TroughTies(v) : \A s \in TroughTies(v) : t <= s

\* C24: when several timestamps share the minimum drawdown, recovery()
\* takes the first of them as the trough and scans from it: its result is
\* measured from that timestamp to the first timestamp at or after it that
\* is back at the peak.
C24_FirstTroughWins ==
    (/\ ret.op = "recovery"
     /\ "balance" \in stats.inst.attrs
     /\ HasLoss(balance.vals)
     /\ Cardinality(TroughTies(balance.vals)) > 1)
    => LET v == balance.vals
           from == FirstTie(v)
           back == {p \in from..Len(v) : v[p] >= RunningPeak(v, from)}
       IN  IF back = {} THEN ret.rec = NotRecovered
           ELSE ret.rec = Days(DateOf(balance.freq, CHOOSE p \in back : \A q \in back : p <= q)
                               - DateOf(balance.freq, from))

\* C24 witness: recovery() has returned a number for a balance that is at
\* its trough at two timestamps
C24_Witness ==
    /\ ret.op = "recovery"
    /\ "balance" \in stats.inst.attrs
    /\ HasLoss(balance.vals)
    /\ Cardinality(TroughTies(balance.vals)) > 1
    /\ ret.rec.kind = "int"

\* C25: whenever the maximum drawdown is negative and recovery() returns a
\* number, the number is >= 1.
C25_RecoveryAtLeastOne ==
    (/\ ret.op = "recovery"
     /\ "balance" \in stats.inst.attrs
     /\ FLt(max_dd(balance.vals), Zero)
     /\ ret.rec.kind = "int")
    => ret.rec.val >= 1

\* C25 witness: recovery() has returned a number for a balance that lost
\* value and came back
C25_Witness ==
    /\ ret.op = "recovery"
    /\ "balance" \in stats.inst.attrs
    /\ FLt(max_dd(balance.vals), Zero)
    /\ ret.rec.kind = "int"
    /\ ret.rec.val >= 1

\* C27: the two tables annualize consistently.  For an engine built at
\* sampling frequency s and reporting frequency f, the step count of (s, f)
\* times the annualization factor of f (which the engine's rf was divided
\* by) is the annual step count of s.
C27_TablesAnnualizeConsistently ==
    (/\ ret.op = "fin_stats"
     /\ "returns" \in stats.inst.attrs
     /\ ~IsNone(stats.inst.rf))
    => LET steps == bal_freq_standarizer[balance.freq]
       IN  steps[ret.freq] * (stats.inst.rf.d \div AnnualRfDen) = steps["Y"]

\* C28: every reporting frequency that get_rf accepts resolves to a
\* positive step count for at least one sampling frequency of the same
\* series, so that get_stats at that frequency can succeed.
C28_AcceptedFrequencyResolves ==
    (ret.op = "get_stats" /\ ~IsNone(get_rf(R(AnnualRfNum, AnnualRfDen), ret.freq)))
    => \E s \in SamplingFreqs :
          LET k == get_stats_freq(Series(balance.vals, s), Series(balance.vals, s), ret.freq)
          IN  k.exc = "none" /\ k.val > 0


====
